---------------------------- MODULE Spec2Model ----------------------------
(***************************************************************************)
(* The script bridge of hummingbot: the reactive parameter set             *)
(* (script_interface.py), the script adapter and the script base class     *)
(* (script_adapter.py, script_base.py) and the live-update commands        *)
(* (script_command.py, order_book_command.py, stop_command.py).            *)
(*                                                                         *)
(* The specifications of the module:                                       *)
(*   SpecParams   the StrategyParameter descriptors and the child queue    *)
(*   SpecSynced   the same, one parameter set, for values the host knows   *)
(*   SpecAdapter  ScriptAdapter: load_script and the guarded operations    *)
(*   SpecCommand  script_command and order_book on any thread              *)
(*   SpecLive     the live-update coroutines the commands schedule         *)
(*   SpecStop     the stop command beside the "live" script command        *)
(*   SpecScript   a running script: its calls to the host, tick, parameters*)
(*   SpecInbound  the script's inbound channel and its polling loop        *)
(*   SpecUtil     round_by_step, take_samples, the volatility functions    *)
(* Every action leaves the variables of the other subsystems unchanged.    *)
(***************************************************************************)
EXTENDS Integers, Sequences, FiniteSets, TLC

VARIABLES
    \* ---- script_interface.py: PMMParameters / StrategyParameter ----
    attrs,          \* attrs[o][n]: the private attribute "_n" of PMMParameters instance o
    updated_value,  \* updated_value[n]: field of the class-level descriptor of n
    child_queue,    \* the module-global queue: a sequence of queued descriptors
    setPc,          \* <<the __set__ in progress (between put and setattr)>>, or <<>>
    hostGot,        \* <<the last message the host took off child_queue>>, or <<>>
    hostParams,     \* hostParams[n]: the host's value of n after the messages it applied
    nSets,          \* history: number of __set__ calls started
    numEmitted,     \* history: numEmitted[n] = messages put on child_queue for n
    numChanging,    \* history: sets of n that found a set value different from the new one
    lastSet         \* history: lastSet[o][n] = value of the most recent __set__, or None

paramVars == <<attrs, updated_value, child_queue, setPc, hostGot, hostParams,
               nSets, numEmitted, numChanging, lastSet>>

VARIABLES
    \* ---- script_adapter.py: ScriptAdapter ----
    script,         \* self.script: <<the script instance>>, or <<>> for None
    scriptBefore,   \* history: self.script when the last adapter call began
    lastOp,         \* history: the last adapter call and its arguments
    outcome,        \* history: "returned" or "raised": how the last adapter call ended
    calls,          \* history: the script methods and hooks the last adapter call ran
    notified        \* history: the _notify calls of the last adapter call

adapterVars == <<script, scriptBefore, lastOp, outcome, calls, notified>>

VARIABLES
    \* ---- script_command.py, order_book_command.py: HummingbotApplication ----
    app_live_updates,   \* self.app.live_updates
    script_iterator,    \* self._script_iterator: <<[live_updates]>>, or <<>> for None
    tasks,              \* the coroutines given to safe_ensure_future
    ev_loop,            \* callbacks scheduled with call_soon_threadsafe
    lastCmd             \* history: the last script command handled, and how

liveVars == <<app_live_updates, script_iterator, tasks, ev_loop, lastCmd>>

VARIABLES
    \* ---- script_base.py: what a running script does to the host ----
    host_calls,     \* the calls received by the script's iterator, in order
    issued,         \* history: the calls the script made, in order
    strategy,       \* the attributes of the host's strategy object
    lastWrite,      \* history: the last write through script.strategy_parameters
    nScriptOps      \* history: number of script operations so far

scriptVars == <<host_calls, issued, strategy, lastWrite, nScriptOps>>

VARIABLES
    \* ---- the script's inbound channel and its polling loop ----
    inbound,        \* the messages waiting on the inbound channel
    processed,      \* history: the messages the loop has processed, in order
    loop_running,   \* the polling loop has not terminated
    sentIn          \* history: every message sent on the inbound channel, in order

inboundVars == <<inbound, processed, loop_running, sentIn>>

VARIABLES
    \* ---- script_base.py: the static helpers ----
    fnInput,        \* the call: the function and its arguments
    fnResult        \* <<its result>>, or <<>> before the call

utilVars == <<fnInput, fnResult>>

VARIABLES
    \* ---- stop_command.py ----
    iterator_stops  \* history: number of calls of self._script_iterator.stop

stopVars == <<iterator_stops>>

otherVars == <<scriptVars, inboundVars, utilVars, stopVars>>

vars == <<paramVars, adapterVars, liveVars, otherVars>>

\* what the actions of one subsystem leave unchanged
exceptParams == <<adapterVars, liveVars, otherVars>>
exceptAdapter == <<paramVars, liveVars, otherVars>>

-----------------------------------------------------------------------------
(* Bounds *)

MaxObjs == 2        \* PMMParameters instances
MaxSets == 4        \* __set__ calls in a behaviour
MaxModule == 2      \* attributes of a loaded script module
MaxBalance == 2     \* balances of a tick snapshot are 1..MaxBalance
MaxTasks == 3       \* coroutines started in a behaviour
MaxPending == 1     \* callbacks waiting in the event loop
MaxScriptOps == 3   \* operations of a running script in a behaviour
MaxInbound == 4     \* messages sent on the inbound channel in a behaviour
MaxSeries == 7      \* length of a series given to take_samples
MaxInterval == 3    \* interval argument of the sampling helpers
MaxLength == 4      \* length argument of the sampling helpers
MaxNumber == 8      \* a_number of round_by_step is -MaxNumber..MaxNumber
MaxStep == 3        \* step_size of round_by_step is 1..MaxStep

-----------------------------------------------------------------------------
(* script_interface.py: reactive parameter set *)

None == "None"

\* Two of the 23 descriptors of PMMParameters.
ParamNames == {"bid_spread", "ask_spread"}

\* Values a script assigns; None is assignable too.
ParamValues == {"v1", "v2"}

Objs == 1..MaxObjs

NotPickled == "NotPickled"

\* __get__: getattr(obj, self.attr)
StrategyParameter_get(o, n) == attrs[o][n]

ShouldEmit_NoUnsetCheck(old_value, value) == old_value # value

\* the condition of __set__: old_value is not None and old_value != value
ShouldEmit(old_value, value) == old_value # None /\ old_value # value

StoredAfterSet_OnlyOnChange(old_value, value) ==
    IF ShouldEmit(old_value, value) THEN value ELSE old_value

\* setattr(obj, self.attr, value), outside the if
StoredAfterSet(old_value, value) == value

\* child_queue.put(self): the queued object is the descriptor itself; `sent`
\* is history (the value of the __set__ that queued it).
QueuePut_WrongName(q, n, value) ==
    Append(q, [name |-> "bid_spread", pickled |-> NotPickled, sent |-> value])

QueuePut(q, n, value) ==
    Append(q, [name |-> n, pickled |-> NotPickled, sent |-> value])

\* history: the number of queued messages that name n
QueuedFor(q, n) == Cardinality({i \in 1..Len(q) : q[i].name = n})

ParamsInit ==
    /\ attrs = [o \in Objs |-> [n \in ParamNames |-> None]]
    /\ updated_value = [n \in ParamNames |-> None]
    /\ child_queue = <<>>
    /\ setPc = <<>>
    /\ hostGot = <<>>
    /\ hostParams = [n \in ParamNames |-> None]
    /\ nSets = 0
    /\ numEmitted = [n \in ParamNames |-> 0]
    /\ numChanging = [n \in ParamNames |-> 0]
    /\ lastSet = [o \in Objs |-> [n \in ParamNames |-> None]]

AttrsAfterPut_Stored(a, o, n, value) == [a EXCEPT ![o][n] = value]

\* the private attributes when child_queue.put returns: setattr comes after it
AttrsAfterPut(a, o, n, value) == a

\* __set__ up to and including child_queue.put(self)
SetBegin(o, n, value) ==
    /\ setPc = <<>>
    /\ nSets < MaxSets
    /\ LET old_value == StrategyParameter_get(o, n)
           emit == ShouldEmit(old_value, value)
       IN /\ updated_value' = IF emit THEN [updated_value EXCEPT ![n] = value]
                                      ELSE updated_value
          /\ child_queue' = IF emit THEN QueuePut(child_queue, n, value)
                                    ELSE child_queue
          /\ numChanging' = IF old_value # None /\ old_value # value
                            THEN [numChanging EXCEPT ![n] = @ + 1]
                            ELSE numChanging
          /\ setPc' = <<[obj |-> o, name |-> n, old |-> old_value, value |-> value]>>
    /\ numEmitted' = [numEmitted EXCEPT
                          ![n] = @ + QueuedFor(child_queue', n) - QueuedFor(child_queue, n)]
    /\ nSets' = nSets + 1
    /\ lastSet' = [lastSet EXCEPT ![o][n] = value]
    /\ attrs' = AttrsAfterPut(attrs, o, n, value)
    /\ UNCHANGED <<hostGot, hostParams>>
    /\ UNCHANGED exceptParams

\* the last statement of __set__: setattr(obj, self.attr, value)
SetEnd ==
    /\ setPc # <<>>
    /\ attrs' = [attrs EXCEPT ![setPc[1].obj][setPc[1].name] =
                                  StoredAfterSet(setPc[1].old, setPc[1].value)]
    /\ setPc' = <<>>
    /\ UNCHANGED <<updated_value, child_queue, hostGot, hostParams, nSets, numEmitted,
                   numChanging, lastSet>>
    /\ UNCHANGED exceptParams

\* A queue between processes serialises the queued descriptor some time after
\* put returns (a feeder thread); an in-process queue never does.
QueueFeed(i) ==
    /\ i \in 1..Len(child_queue)
    /\ child_queue[i].pickled = NotPickled
    /\ child_queue' = [child_queue EXCEPT ![i].pickled = updated_value[child_queue[i].name]]
    /\ UNCHANGED <<attrs, updated_value, setPc, hostGot, hostParams, nSets, numEmitted,
                   numChanging, lastSet>>
    /\ UNCHANGED exceptParams

\* What the consumer reads from a queued descriptor: its serialised copy, or
\* the shared descriptor object itself.
MessageValue(m) ==
    IF m.pickled = NotPickled THEN updated_value[m.name] ELSE m.pickled

\* The host takes the first message off the queue, reads name and updated_value
\* and applies the value to its copy of the parameter.
HostGet ==
    /\ child_queue # <<>>
    /\ hostGot' = <<[name |-> Head(child_queue).name,
                     value |-> MessageValue(Head(child_queue)),
                     sent |-> Head(child_queue).sent]>>
    /\ hostParams' = [hostParams EXCEPT ![Head(child_queue).name] =
                                           MessageValue(Head(child_queue))]
    /\ child_queue' = Tail(child_queue)
    /\ UNCHANGED <<attrs, updated_value, setPc, nSets, numEmitted, numChanging, lastSet>>
    /\ UNCHANGED exceptParams

ParamsNext ==
    \/ \E o \in Objs, n \in ParamNames, value \in ParamValues \cup {None} :
          SetBegin(o, n, value)
    \/ SetEnd
    \/ \E i \in 1..Len(child_queue) : QueueFeed(i)
    \/ HostGet

\* The parameter set of one script (instance 1) whose parameters all hold the
\* value the host started it with.
SyncedInit ==
    /\ attrs = [o \in Objs |-> [n \in ParamNames |-> IF o = 1 THEN "v1" ELSE None]]
    /\ updated_value = [n \in ParamNames |-> None]
    /\ child_queue = <<>>
    /\ setPc = <<>>
    /\ hostGot = <<>>
    /\ hostParams = [n \in ParamNames |-> "v1"]
    /\ nSets = 0
    /\ numEmitted = [n \in ParamNames |-> 0]
    /\ numChanging = [n \in ParamNames |-> 0]
    /\ lastSet = [o \in Objs |-> [n \in ParamNames |-> IF o = 1 THEN "v1" ELSE None]]

SyncedNext ==
    \/ \E n \in ParamNames, value \in ParamValues \cup {None} : SetBegin(1, n, value)
    \/ SetEnd
    \/ \E i \in 1..Len(child_queue) : QueueFeed(i)
    \/ HostGet

-----------------------------------------------------------------------------
(* script_adapter.py, script_base.py: the adapter and the script it owns *)

\* The objects a script module may expose, as import_script_sub_class sees
\* them: inspect.isclass(obj), issubclass(obj, ScriptBase), obj.__name__.
\* ScriptA inherits ScriptBase.tick and ScriptBase.on_status; ScriptB defines
\* its own tick, taking the six snapshot arguments, and its own on_status.
\* Both define the event hooks.
ModuleObjects ==
    { [isclass |-> FALSE, subclass |-> FALSE, name |-> "helper"],
      [isclass |-> TRUE,  subclass |-> FALSE, name |-> "Decimal"],
      [isclass |-> TRUE,  subclass |-> TRUE,  name |-> "ScriptBase"],
      [isclass |-> TRUE,  subclass |-> TRUE,  name |-> "ScriptA"],
      [isclass |-> TRUE,  subclass |-> TRUE,  name |-> "ScriptB"] }

\* A module: its objects in the order of dir(module).
Modules == UNION { [1..k -> ModuleObjects] : k \in 0..MaxModule }

OverridesTick(cls) == cls = "ScriptB"
OverridesStatus(cls) == cls = "ScriptB"

Balances == 1..MaxBalance
MidPrices == {"mid1", "mid2"}
ParameterSets == {"params1"}
OrderLists == {"no orders", "orders1"}
TradeLists == {"no trades", "trades1"}
Events == {"event1", "event2"}
MarketInfos == {"market1"}
Cmds == {"live", "Live", "report"}
ArgLists == {<<>>, <<"a", "b">>}
StatusResults == {None, "", "status text"}

Min(S) == CHOOSE x \in S : \A y \in S : x <= y

Qualifies_AnySubclass(obj) == obj.isclass /\ obj.subclass

\* inspect.isclass(obj) and issubclass(obj, ScriptBase) and obj.__name__ != "ScriptBase"
Qualifies(obj) == obj.isclass /\ obj.subclass /\ obj.name # "ScriptBase"

QualifyingIndexes(module) == {i \in 1..Len(module) : Qualifies(module[i])}

\* for x in dir(module): ... return obj; falls off the loop and returns None
\* when no object qualifies
import_script_sub_class(module) ==
    IF QualifyingIndexes(module) = {}
    THEN None
    ELSE module[Min(QualifyingIndexes(module))].name

\* ScriptBase.__init__ followed by `self.script.iterator = iterator`
NewScript(cls, iterator) ==
    [cls |-> cls, iterator |-> iterator, strategy_parameters |-> None,
     pmm_market_info |-> None, trades |-> None]

load_script_ClearsFirst(old, module, execRaises, ctorRaises, iterator) ==
    IF execRaises \/ import_script_sub_class(module) = None \/ ctorRaises
    THEN [raised |-> TRUE, script |-> <<>>]
    ELSE [raised |-> FALSE,
          script |-> <<NewScript(import_script_sub_class(module), iterator)>>]

\* load_script: exec_module may raise (execRaises); calling the None that
\* import_script_sub_class returned raises TypeError; the script's constructor
\* may raise (ctorRaises). All three happen before self.script is assigned.
load_script(old, module, execRaises, ctorRaises, iterator) ==
    IF execRaises \/ import_script_sub_class(module) = None \/ ctorRaises
    THEN [raised |-> TRUE, script |-> old]
    ELSE [raised |-> FALSE,
          script |-> <<NewScript(import_script_sub_class(module), iterator)>>]

\* The positional arguments of the call self.script.tick(...) in ScriptAdapter.tick
TickCallArgs(mid_price, pmm_parameters, all_total_balances, all_available_balances, orders, trades) ==
    <<mid_price, pmm_parameters, all_total_balances, all_total_balances, orders, trades>>

ScriptBase_tick_HookFirst(scr, args, raises) ==
    IF Len(args) # 1
    THEN [raised |-> TRUE, script |-> scr, calls |-> <<>>]
    ELSE [raised |-> raises,
          script |-> [scr EXCEPT !.trades = args[1]],
          calls |-> <<[hook |-> "on_tick", trades |-> scr.trades, raised |-> raises]>>]

\* ScriptBase.tick(self, trades): any other number of positional arguments is a
\* TypeError before the body runs; the body stores trades and then calls
\* on_tick, whose record holds self.trades as on_tick reads it.
ScriptBase_tick(scr, args, raises) ==
    IF Len(args) # 1
    THEN [raised |-> TRUE, script |-> scr, calls |-> <<>>]
    ELSE LET stored == [scr EXCEPT !.trades = args[1]]
         IN [raised |-> raises,
             script |-> stored,
             calls |-> <<[hook |-> "on_tick", trades |-> stored.trades,
                          raised |-> raises]>>]

\* A script class's own tick(self, mid_price, pmm_parameters, all_total_balances,
\* all_available_balances, orders, trades): stores trades and calls on_tick.
OwnTick(scr, args, raises) ==
    [raised |-> raises,
     script |-> [scr EXCEPT !.trades = args[6]],
     calls |-> <<[hook |-> "on_tick",
                  mid_price |-> args[1], pmm_parameters |-> args[2],
                  all_total_balances |-> args[3], all_available_balances |-> args[4],
                  orders |-> args[5], trades |-> args[6], raised |-> raises]>>]

\* ScriptBase.on_status: f"{self.__class__.__name__} is active."
ScriptBase_on_status(cls) == cls \o " is active."

Truthy_NotNone(status_msg) == status_msg # None

\* `if status_msg:` of ScriptAdapter.status
Truthy(status_msg) == status_msg # None /\ status_msg # ""

AdapterInit ==
    /\ script = <<>>
    /\ scriptBefore = <<>>
    /\ lastOp = [op |-> "__init__"]
    /\ outcome = "returned"
    /\ calls = <<>>
    /\ notified = <<>>

AdapterLoadScript(module, execRaises, ctorRaises) ==
    LET r == load_script(script, module, execRaises, ctorRaises, "iterator")
    IN /\ script' = r.script
       /\ outcome' = IF r.raised THEN "raised" ELSE "returned"
       /\ lastOp' = [op |-> "load_script", module |-> module,
                     execRaises |-> execRaises, ctorRaises |-> ctorRaises]
       /\ scriptBefore' = script
       /\ calls' = <<>>
       /\ notified' = <<>>
       /\ UNCHANGED exceptAdapter

AdapterStart(item) ==
    /\ script' = IF script # <<>> THEN <<[script[1] EXCEPT !.pmm_market_info = item]>>
                                  ELSE script
    /\ lastOp' = [op |-> "start", item |-> item]
    /\ outcome' = "returned"
    /\ scriptBefore' = script
    /\ calls' = <<>>
    /\ notified' = <<>>
    /\ UNCHANGED exceptAdapter

AdapterTick(mid_price, pmm_parameters, all_total_balances, all_available_balances, orders, trades, raises) ==
    LET args == TickCallArgs(mid_price, pmm_parameters, all_total_balances,
                             all_available_balances, orders, trades)
        r == IF OverridesTick(script[1].cls) THEN OwnTick(script[1], args, raises)
                                             ELSE ScriptBase_tick(script[1], args, raises)
    IN /\ lastOp' = [op |-> "tick", mid_price |-> mid_price,
                     pmm_parameters |-> pmm_parameters,
                     all_total_balances |-> all_total_balances,
                     all_available_balances |-> all_available_balances,
                     orders |-> orders, trades |-> trades]
       /\ scriptBefore' = script
       /\ notified' = <<>>
       /\ IF script # <<>>
          THEN /\ script' = <<r.script>>
               /\ calls' = r.calls
               /\ outcome' = IF r.raised THEN "raised" ELSE "returned"
          ELSE /\ script' = script
               /\ calls' = <<>>
               /\ outcome' = "returned"
       /\ UNCHANGED exceptAdapter

\* the shape shared by order_filled, buy_order_completed, sell_order_completed,
\* order_refresh and command: if self.script is not None: self.script.<hook>(...)
Forward(op, hook, args, raises) ==
    /\ lastOp' = [op |-> op, args |-> args]
    /\ scriptBefore' = script
    /\ script' = script
    /\ notified' = <<>>
    /\ calls' = IF script # <<>>
                THEN <<[hook |-> hook, args |-> args, raised |-> raises]>>
                ELSE <<>>
    /\ outcome' = IF script # <<>> /\ raises THEN "raised" ELSE "returned"

AdapterOrderFilled(event, raises) ==
    /\ Forward("order_filled", "on_order_filled", <<event>>, raises)
    /\ UNCHANGED exceptAdapter

AdapterBuyOrderCompleted(event, raises) ==
    /\ Forward("buy_order_completed", "on_buy_order_completed", <<event>>, raises)
    /\ UNCHANGED exceptAdapter

AdapterSellOrderCompleted_CallsBuyHook(event, raises) ==
    /\ Forward("sell_order_completed", "on_buy_order_completed", <<event>>, raises)
    /\ UNCHANGED exceptAdapter

AdapterSellOrderCompleted(event, raises) ==
    /\ Forward("sell_order_completed", "on_sell_order_completed", <<event>>, raises)
    /\ UNCHANGED exceptAdapter

AdapterOrderRefresh(raises) ==
    /\ Forward("order_refresh", "on_order_refresh", <<>>, raises)
    /\ UNCHANGED exceptAdapter

AdapterCommand(cmd, args, raises) ==
    /\ Forward("command", "on_command", <<cmd, args>>, raises)
    /\ UNCHANGED exceptAdapter

\* status: result is what a script's own on_status returns
AdapterStatus(result, raises) ==
    LET own == OverridesStatus(script[1].cls)
        status_msg == IF own THEN result ELSE ScriptBase_on_status(script[1].cls)
        raised == own /\ raises
    IN /\ lastOp' = [op |-> "status", result |-> result]
       /\ scriptBefore' = script
       /\ script' = script
       /\ IF script # <<>>
          THEN /\ calls' = <<[hook |-> "on_status", args |-> <<>>, raised |-> raised]>>
               /\ outcome' = IF raised THEN "raised" ELSE "returned"
               /\ notified' = IF ~raised /\ Truthy(status_msg) THEN <<status_msg>>
                                                              ELSE <<>>
          ELSE /\ calls' = <<>>
               /\ outcome' = "returned"
               /\ notified' = <<>>
       /\ UNCHANGED exceptAdapter

AdapterNext ==
    \/ \E module \in Modules, execRaises \in BOOLEAN, ctorRaises \in BOOLEAN :
          AdapterLoadScript(module, execRaises, ctorRaises)
    \/ \E item \in MarketInfos : AdapterStart(item)
    \/ \E mid_price \in MidPrices, pmm_parameters \in ParameterSets,
          all_total_balances \in Balances, all_available_balances \in Balances,
          orders \in OrderLists, trades \in TradeLists, raises \in BOOLEAN :
          /\ all_available_balances <= all_total_balances
          /\ AdapterTick(mid_price, pmm_parameters, all_total_balances,
                         all_available_balances, orders, trades, raises)
    \/ \E event \in Events, raises \in BOOLEAN : AdapterOrderFilled(event, raises)
    \/ \E event \in Events, raises \in BOOLEAN : AdapterBuyOrderCompleted(event, raises)
    \/ \E event \in Events, raises \in BOOLEAN : AdapterSellOrderCompleted(event, raises)
    \/ \E raises \in BOOLEAN : AdapterOrderRefresh(raises)
    \/ \E cmd \in Cmds, args \in ArgLists, raises \in BOOLEAN :
          AdapterCommand(cmd, args, raises)
    \/ \E result \in StatusResults, raises \in BOOLEAN : AdapterStatus(result, raises)

-----------------------------------------------------------------------------
(* script_command.py, order_book_command.py: commands and live-update loops *)

Tasks == 1..MaxTasks

Threads == {"main", "other"}

\* the script commands issued while the live-update coroutines are followed
LiveCmds == {"live", "report"}

\* why show_order_book returns early, or "none"
BookProblems == {"none", "There is currently no active market.",
                 "Invalid exchange", "Invalid market"}

\* kind: the coroutine; pc: where it is; live: the argument of show_order_book;
\* waitFor: the loops that wake before its stop_live_update returns;
\* prior (history): the loops that were active when it called stop_live_update;
\* stopped (history): the "Stopped ..." notifications it has sent
UnusedTask == [kind |-> "none", pc |-> "unused", live |-> FALSE,
               waitFor |-> {}, prior |-> {}, stopped |-> 0]

\* the coroutines that are inside the body of their `while self.app.live_updates`
LoopsActive == {u \in Tasks : tasks[u].pc = "loop"}

HasFreeTask == \E u \in Tasks : tasks[u].pc = "unused"
FreeTask == Min({u \in Tasks : tasks[u].pc = "unused"})

\* safe_ensure_future(coroutine): the coroutine starts at a later turn of the loop
Spawn(kind, live) ==
    [tasks EXCEPT ![FreeTask] = [UnusedTask EXCEPT !.kind = kind, !.pc = "scheduled",
                                                   !.live = live]]

\* stop_live_update(): when a live update is on, clears the flag and suspends
\* the caller for one cadence of the loops, so that every loop that is waiting
\* when the flag is cleared wakes before the caller resumes; when none is on,
\* returns at once without suspending.
stop_live_update(flag, sleeping) ==
    IF flag THEN [flag |-> FALSE, suspend |-> TRUE, waitFor |-> sleeping]
            ELSE [flag |-> FALSE, suspend |-> FALSE, waitFor |-> {}]

IsLiveCommand_AnyCase(cmd) == cmd \in {"live", "Live"}

\* cmd == 'live'
IsLiveCommand(cmd) == cmd = "live"

\* ScriptIterator.command(cmd, args): hands the command to the adapter
ScriptIterator_command(cmd, args, raises) ==
    Forward("command", "on_command", <<cmd, args>>, raises)

LiveInit ==
    /\ app_live_updates = FALSE
    /\ script_iterator = <<>>
    /\ tasks = [u \in Tasks |-> UnusedTask]
    /\ ev_loop = <<>>
    /\ lastCmd = [cmd |-> None, args |-> <<>>, active |-> FALSE, spawned |-> 0,
                  ignored |-> FALSE, notice |-> <<>>, thread |-> None, turn |-> 0]

\* the application after `start`: with a script running, or with none configured
StartedInit ==
    /\ app_live_updates = FALSE
    /\ tasks = [u \in Tasks |-> UnusedTask]
    /\ ev_loop = <<>>
    /\ lastCmd = [cmd |-> None, args |-> <<>>, active |-> FALSE, spawned |-> 0,
                  ignored |-> FALSE, notice |-> <<>>, thread |-> None, turn |-> 0]
    /\ scriptBefore = <<>>
    /\ lastOp = [op |-> "__init__"]
    /\ outcome = "returned"
    /\ calls = <<>>
    /\ notified = <<>>
    /\ \/ script = <<>> /\ script_iterator = <<>>
       \/ /\ script = <<NewScript("ScriptA", "iterator")>>
          /\ script_iterator = <<[live_updates |-> FALSE]>>

\* self._notify('No script is active, command ignored')
NoScriptNotice == "No script is active, command ignored"

\* history: what the handling of a command on `thread` leaves in lastCmd; turn
\* flips every time a command is handled
Handled(thread, cmd, args, active, spawned, notice) ==
    [cmd |-> cmd, args |-> args, active |-> active, spawned |-> spawned,
     ignored |-> ~active, notice |-> notice, thread |-> thread, turn |-> 1 - lastCmd.turn]

HandleScriptCommand_LiveUnchecked(thread, cmd, args, raises) ==
    IF IsLiveCommand(cmd)
    THEN /\ HasFreeTask
         /\ tasks' = Spawn("script_live_updates", TRUE)
         /\ lastCmd' = Handled(thread, cmd, args, script_iterator # <<>>, FreeTask, <<>>)
         /\ calls' = <<>>
         /\ UNCHANGED <<script, scriptBefore, lastOp, outcome, notified>>
    ELSE IF script_iterator # <<>>
         THEN /\ ScriptIterator_command(cmd, args, raises)
              /\ lastCmd' = Handled(thread, cmd, args, TRUE, 0, <<>>)
              /\ UNCHANGED tasks
         ELSE /\ lastCmd' = Handled(thread, cmd, args, FALSE, 0, <<NoScriptNotice>>)
              /\ calls' = <<>>
              /\ UNCHANGED <<tasks, script, scriptBefore, lastOp, outcome, notified>>

\* script_command, the body after the thread check, running on `thread`
HandleScriptCommand(thread, cmd, args, raises) ==
    IF script_iterator # <<>>
    THEN IF IsLiveCommand(cmd)
         THEN /\ HasFreeTask
              /\ tasks' = Spawn("script_live_updates", TRUE)
              /\ lastCmd' = Handled(thread, cmd, args, TRUE, FreeTask, <<>>)
              /\ calls' = <<>>
              /\ UNCHANGED <<script, scriptBefore, lastOp, outcome, notified>>
         ELSE /\ ScriptIterator_command(cmd, args, raises)
              /\ lastCmd' = Handled(thread, cmd, args, TRUE, 0, <<>>)
              /\ UNCHANGED tasks
    ELSE /\ lastCmd' = Handled(thread, cmd, args, FALSE, 0, <<NoScriptNotice>>)
         /\ calls' = <<>>
         /\ UNCHANGED <<tasks, script, scriptBefore, lastOp, outcome, notified>>

ScriptCommand_NoThreadCheck(thread, cmd, args, raises) ==
    /\ HandleScriptCommand(thread, cmd, args, raises)
    /\ UNCHANGED ev_loop
    /\ UNCHANGED <<app_live_updates, script_iterator, paramVars, otherVars>>

\* script_command(cmd, args) called on `thread`
ScriptCommand(thread, cmd, args, raises) ==
    /\ IF thread # "main"
       THEN /\ Len(ev_loop) < MaxPending
            /\ ev_loop' = Append(ev_loop, [fn |-> "script_command", cmd |-> cmd,
                                           args |-> args, live |-> FALSE])
            /\ UNCHANGED <<tasks, lastCmd, adapterVars>>
       ELSE /\ HandleScriptCommand(thread, cmd, args, raises)
            /\ UNCHANGED ev_loop
    /\ UNCHANGED <<app_live_updates, script_iterator, paramVars, otherVars>>

\* order_book(live=...) called on `thread`
OrderBook(thread, live) ==
    /\ IF thread # "main"
       THEN /\ Len(ev_loop) < MaxPending
            /\ ev_loop' = Append(ev_loop, [fn |-> "order_book", cmd |-> None,
                                           args |-> <<>>, live |-> live])
            /\ UNCHANGED tasks
       ELSE /\ HasFreeTask
            /\ tasks' = Spawn("show_order_book", live)
            /\ UNCHANGED ev_loop
    /\ UNCHANGED <<app_live_updates, script_iterator, lastCmd, adapterVars, paramVars, otherVars>>

\* the event loop runs a callback scheduled with call_soon_threadsafe
RunCallback(raises) ==
    /\ ev_loop # <<>>
    /\ ev_loop' = Tail(ev_loop)
    /\ IF Head(ev_loop).fn = "script_command"
       THEN HandleScriptCommand("main", Head(ev_loop).cmd, Head(ev_loop).args, raises)
       ELSE /\ HasFreeTask
            /\ tasks' = Spawn(IF Head(ev_loop).fn = "stop" THEN "stop_loop"
                                                             ELSE "show_order_book",
                               Head(ev_loop).live)
            /\ UNCHANGED <<lastCmd, adapterVars>>
    /\ UNCHANGED <<app_live_updates, script_iterator, paramVars, otherVars>>

\* a coroutine inside its `while self.app.live_updates` (prior and waitFor
\* matter only while it waits in stop_live_update)
InLoop(task) == [UnusedTask EXCEPT !.kind = task.kind, !.pc = "loop"]

\* script_live_updates after stop_live_update: sets both flags and enters the
\* loop; with self._script_iterator None the second assignment raises.
EnterScriptLoop(t, tk) ==
    /\ app_live_updates' = TRUE
    /\ IF script_iterator = <<>>
       THEN /\ tasks' = [tk EXCEPT ![t] = [UnusedTask EXCEPT !.kind = tk[t].kind,
                                                           !.pc = "failed"]]
            /\ UNCHANGED script_iterator
       ELSE /\ tasks' = [tk EXCEPT ![t] = InLoop(tk[t])]
            /\ script_iterator' = <<[script_iterator[1] EXCEPT !.live_updates = TRUE]>>

\* show_order_book(live=True) after stop_live_update
EnterBookLoop(t, tk) ==
    /\ app_live_updates' = TRUE
    /\ tasks' = [tk EXCEPT ![t] = InLoop(tk[t])]
    /\ UNCHANGED script_iterator

Suspend(t, s) ==
    /\ app_live_updates' = s.flag
    /\ tasks' = [tasks EXCEPT ![t].pc = "stop_wait", ![t].waitFor = s.waitFor,
                              ![t].prior = LoopsActive]
    /\ UNCHANGED script_iterator

\* script_live_updates from its start to its first suspension
ScriptLiveStart(t) ==
    /\ tasks[t].pc = "scheduled"
    /\ tasks[t].kind = "script_live_updates"
    /\ LET s == stop_live_update(app_live_updates, LoopsActive)
       IN IF s.suspend
          THEN Suspend(t, s)
          ELSE EnterScriptLoop(t, tasks)
    /\ UNCHANGED <<ev_loop, lastCmd, adapterVars, paramVars, otherVars>>

\* show_order_book from its start to its first suspension or its return
ShowOrderBookStart(t, problem) ==
    /\ tasks[t].pc = "scheduled"
    /\ tasks[t].kind = "show_order_book"
    /\ IF problem # "none" \/ ~tasks[t].live
       THEN /\ tasks' = [tasks EXCEPT ![t] = [UnusedTask EXCEPT !.kind = tasks[t].kind,
                                                                 !.pc = "done"]]
            /\ UNCHANGED <<app_live_updates, script_iterator>>
       ELSE LET s == stop_live_update(app_live_updates, LoopsActive)
            IN IF s.suspend
               THEN Suspend(t, s)
               ELSE EnterBookLoop(t, tasks)
    /\ UNCHANGED <<ev_loop, lastCmd, adapterVars, paramVars, otherVars>>

\* stop_live_update returns to the coroutine that awaited it
StopWaitResume(t) ==
    /\ tasks[t].pc = "stop_wait"
    /\ tasks[t].waitFor = {}
    /\ IF tasks[t].kind = "script_live_updates"
       THEN EnterScriptLoop(t, tasks)
       ELSE EnterBookLoop(t, tasks)
    /\ UNCHANGED <<ev_loop, lastCmd, adapterVars, paramVars, otherVars>>

Stopped_NoNotification(task) == [UnusedTask EXCEPT !.kind = task.kind, !.pc = "done"]

\* a loop that found the flag cleared: it has left its loop and has notified
\* "Stopped ... update." once (prior and waitFor matter only before that)
Stopped(task) ==
    [UnusedTask EXCEPT !.kind = task.kind, !.pc = "done", !.stopped = task.stopped + 1]

\* history: the others no longer wait for t's wake-up
Woken(t, tk) ==
    [u \in Tasks |-> IF u = t THEN tk[u] ELSE [tk[u] EXCEPT !.waitFor = @ \ {t}]]

ScriptLiveWake_NeverLeaves(t) ==
    /\ tasks[t].pc = "loop"
    /\ tasks[t].kind = "script_live_updates"
    /\ tasks' = Woken(t, tasks)
    /\ UNCHANGED script_iterator
    /\ UNCHANGED <<app_live_updates, ev_loop, lastCmd, adapterVars, paramVars, otherVars>>

\* the await inside the loop of script_live_updates returns: the loop tests the
\* flag again, and after the loop clears the iterator's flag and notifies
ScriptLiveWake(t) ==
    /\ tasks[t].pc = "loop"
    /\ tasks[t].kind = "script_live_updates"
    /\ IF app_live_updates
       THEN /\ tasks' = Woken(t, tasks)
            /\ UNCHANGED script_iterator
       ELSE /\ tasks' = Woken(t, [tasks EXCEPT ![t] = Stopped(tasks[t])])
            /\ script_iterator' =
                  IF script_iterator # <<>>
                  THEN <<[script_iterator[1] EXCEPT !.live_updates = FALSE]>>
                  ELSE script_iterator
    /\ UNCHANGED <<app_live_updates, ev_loop, lastCmd, adapterVars, paramVars, otherVars>>

\* the await inside the loop of show_order_book returns
ShowOrderBookWake(t) ==
    /\ tasks[t].pc = "loop"
    /\ tasks[t].kind = "show_order_book"
    /\ IF app_live_updates
       THEN tasks' = Woken(t, tasks)
       ELSE tasks' = Woken(t, [tasks EXCEPT ![t] = Stopped(tasks[t])])
    /\ UNCHANGED <<app_live_updates, script_iterator, ev_loop, lastCmd,
                   adapterVars, paramVars, otherVars>>

\* the user ends the live display: the flag is cleared
UserClear ==
    /\ app_live_updates
    /\ app_live_updates' = FALSE
    /\ UNCHANGED <<script_iterator, tasks, ev_loop, lastCmd, adapterVars, paramVars, otherVars>>

\* The command handlers, called on any thread; the coroutines they schedule
\* are followed in LiveNext.
CommandNext ==
    \/ \E thread \in Threads, cmd \in Cmds, args \in ArgLists, raises \in BOOLEAN :
          ScriptCommand(thread, cmd, args, raises)
    \/ \E thread \in Threads, live \in BOOLEAN : OrderBook(thread, live)
    \/ \E raises \in BOOLEAN : RunCallback(raises)

\* The live-update coroutines. The commands are issued on the main thread: a
\* command issued on another thread is handled by the same code when the event
\* loop runs its callback.
LiveNext ==
    \/ \E cmd \in LiveCmds : ScriptCommand("main", cmd, <<>>, FALSE)
    \/ \E live \in BOOLEAN : OrderBook("main", live)
    \/ \E t \in Tasks : ScriptLiveStart(t)
    \/ \E t \in Tasks, problem \in BookProblems : ShowOrderBookStart(t, problem)
    \/ \E t \in Tasks : StopWaitResume(t)
    \/ \E t \in Tasks : ScriptLiveWake(t)
    \/ \E t \in Tasks : ShowOrderBookWake(t)
    \/ UserClear

-----------------------------------------------------------------------------
(* stop_command.py: stop and stop_loop *)

StopScriptIterator_KeepsReference(it) ==
    IF it # <<>> THEN [invoked |-> 1, iterator |-> it]
                 ELSE [invoked |-> 0, iterator |-> it]

\* stop_loop, the script part: if self._script_iterator is not None:
\* self._script_iterator.stop(self.clock); self._script_iterator = None
StopScriptIterator(it) ==
    IF it # <<>> THEN [invoked |-> 1, iterator |-> <<>>]
                 ELSE [invoked |-> 0, iterator |-> it]

StopInit == iterator_stops = 0

\* stop() called on `thread`
Stop(thread) ==
    /\ IF thread # "main"
       THEN /\ Len(ev_loop) < MaxPending
            /\ ev_loop' = Append(ev_loop, [fn |-> "stop", cmd |-> None,
                                           args |-> <<>>, live |-> FALSE])
            /\ UNCHANGED tasks
       ELSE /\ HasFreeTask
            /\ tasks' = Spawn("stop_loop", FALSE)
            /\ UNCHANGED ev_loop
    /\ UNCHANGED <<app_live_updates, script_iterator, lastCmd, adapterVars, paramVars, otherVars>>

\* stop_loop from the point where no await is left before the script part, to
\* its end
StopLoopFinish(t) ==
    /\ script_iterator' = StopScriptIterator(script_iterator).iterator
    /\ iterator_stops' = iterator_stops + StopScriptIterator(script_iterator).invoked
    /\ tasks' = [tasks EXCEPT ![t] = [UnusedTask EXCEPT !.kind = tasks[t].kind,
                                                         !.pc = "done"]]

\* stop_loop from its start: with orders to cancel (self._trading_required and
\* not skip_order_cancellation) it suspends in the cancellation, otherwise it
\* runs to its end
StopLoopStart(t, cancels) ==
    /\ tasks[t].pc = "scheduled"
    /\ tasks[t].kind = "stop_loop"
    /\ IF cancels
       THEN /\ tasks' = [tasks EXCEPT ![t].pc = "cancelling"]
            /\ UNCHANGED <<script_iterator, iterator_stops>>
       ELSE StopLoopFinish(t)
    /\ UNCHANGED <<app_live_updates, ev_loop, lastCmd, adapterVars, paramVars>>
    /\ UNCHANGED <<scriptVars, inboundVars, utilVars>>

\* the awaits of the cancellation have returned
StopLoopResume(t) ==
    /\ tasks[t].pc = "cancelling"
    /\ tasks[t].kind = "stop_loop"
    /\ StopLoopFinish(t)
    /\ UNCHANGED <<app_live_updates, ev_loop, lastCmd, adapterVars, paramVars>>
    /\ UNCHANGED <<scriptVars, inboundVars, utilVars>>

\* The stop command beside the script command "live" and its coroutine.
StopNext ==
    \/ \E cmd \in LiveCmds : ScriptCommand("main", cmd, <<>>, FALSE)
    \/ \E thread \in Threads : Stop(thread)
    \/ RunCallback(FALSE)
    \/ \E t \in Tasks, cancels \in BOOLEAN : StopLoopStart(t, cancels)
    \/ \E t \in Tasks : StopLoopResume(t)
    \/ \E t \in Tasks : ScriptLiveStart(t)
    \/ \E t \in Tasks : StopWaitResume(t)
    \/ \E t \in Tasks : ScriptLiveWake(t)
    \/ UserClear

-----------------------------------------------------------------------------
(* script_base.py: what a running script does to the host *)

Payloads == {"text1", "text2"}

\* the attributes of the host strategy a script writes, and the values it writes
StrategyAttrs == {"bid_spread", "order_amount"}
StrategyValues == {"s1", "s2"}
HostValue == "s0"

\* Each method of ScriptBase below is the sequence of calls it makes on
\* self.iterator.

\* notify: self.iterator.notify(msg)
ScriptBase_notify(msg) == <<[kind |-> "notify", payload |-> <<msg>>]>>

\* set_live_text: self.iterator.set_live_text(text)
ScriptBase_set_live_text(text) == <<[kind |-> "set_live_text", payload |-> <<text>>]>>

\* send_image: self.iterator.send_image(image)
ScriptBase_send_image(image) == <<[kind |-> "send_image", payload |-> <<image>>]>>

ScriptBase_log_AsNotify(msg) == <<[kind |-> "notify", payload |-> <<msg>>]>>

\* log: self.iterator.log(msg)
ScriptBase_log(msg) == <<[kind |-> "log", payload |-> <<msg>>]>>

\* request_stop: self.iterator.request_stop(reason)
ScriptBase_request_stop(reason) == <<[kind |-> "request_stop", payload |-> <<reason>>]>>

\* force_order_refresh: self.iterator.force_order_refresh()
ScriptBase_force_order_refresh == <<[kind |-> "force_order_refresh", payload |-> <<>>]>>

\* the calls a script can make: a method of ScriptBase and its argument
Requests ==
    [kind : {"notify", "set_live_text", "send_image", "log", "request_stop"},
     payload : {<<p>> : p \in Payloads}]
    \cup {[kind |-> "force_order_refresh", payload |-> <<>>]}

IteratorCalls(req) ==
    CASE req.kind = "notify" -> ScriptBase_notify(req.payload[1])
      [] req.kind = "set_live_text" -> ScriptBase_set_live_text(req.payload[1])
      [] req.kind = "send_image" -> ScriptBase_send_image(req.payload[1])
      [] req.kind = "log" -> ScriptBase_log(req.payload[1])
      [] req.kind = "request_stop" -> ScriptBase_request_stop(req.payload[1])
      [] req.kind = "force_order_refresh" -> ScriptBase_force_order_refresh

\* ScriptIterator.notify / log / ...: the host side receives each call as it
\* is made
ScriptIterator_receive(received, cs) == received \o cs

\* StrategyParameters.__setattr__: setattr(self.strategy, name, value); an
\* AttributeError of the strategy (refuses) is raised again with another text
StrategyParameters_setattr(strat, name, value, refuses) ==
    IF refuses THEN [raised |-> TRUE, strategy |-> strat]
               ELSE [raised |-> FALSE, strategy |-> [strat EXCEPT ![name] = value]]

\* StrategyParameters.__getattr__: getattr(self.strategy, name)
StrategyParameters_getattr(strat, name) == strat[name]

NoWrite == [n |-> 0, name |-> None, value |-> None, raised |-> FALSE]

ScriptInit ==
    /\ host_calls = <<>>
    /\ issued = <<>>
    /\ strategy = [a \in StrategyAttrs |-> HostValue]
    /\ lastWrite = NoWrite
    /\ nScriptOps = 0

\* one of notify, set_live_text, send_image, log, request_stop,
\* force_order_refresh, called by the script's code
ScriptCall(req) ==
    /\ nScriptOps < MaxScriptOps
    /\ script # <<>>
    /\ script[1].iterator # None
    /\ issued' = Append(issued, req)
    /\ host_calls' = ScriptIterator_receive(host_calls, IteratorCalls(req))
    /\ nScriptOps' = nScriptOps + 1
    /\ UNCHANGED <<strategy, lastWrite>>
    /\ UNCHANGED <<paramVars, adapterVars, liveVars, inboundVars, utilVars, stopVars>>

\* ScriptBase.init(iterator): keeps the iterator and builds the parameter view
\* on iterator.strategy
ScriptBaseInit ==
    /\ nScriptOps < MaxScriptOps
    /\ script # <<>>
    /\ script' = <<[script[1] EXCEPT !.iterator = "iterator",
                                     !.strategy_parameters = "view"]>>
    /\ nScriptOps' = nScriptOps + 1
    /\ UNCHANGED <<scriptBefore, lastOp, outcome, calls, notified>>
    /\ UNCHANGED <<host_calls, issued, strategy, lastWrite>>
    /\ UNCHANGED <<paramVars, liveVars, inboundVars, utilVars, stopVars>>

\* the script's code: self.strategy_parameters.<name> = value. Before init the
\* view is None and the assignment raises.
StrategyParametersWrite(name, value, refuses) ==
    /\ nScriptOps < MaxScriptOps
    /\ script # <<>>
    /\ LET r == IF script[1].strategy_parameters = None
                THEN [raised |-> TRUE, strategy |-> strategy]
                ELSE StrategyParameters_setattr(strategy, name, value, refuses)
       IN /\ strategy' = r.strategy
          /\ lastWrite' = [n |-> nScriptOps + 1, name |-> name, value |-> value,
                           raised |-> r.raised]
    /\ nScriptOps' = nScriptOps + 1
    /\ UNCHANGED <<host_calls, issued>>
    /\ UNCHANGED <<paramVars, adapterVars, liveVars, inboundVars, utilVars, stopVars>>

\* script.tick(trades) called with the one argument ScriptBase.tick takes
ScriptTick(trades, raises) ==
    /\ nScriptOps < MaxScriptOps
    /\ script # <<>>
    /\ ~OverridesTick(script[1].cls)
    /\ LET r == ScriptBase_tick(script[1], <<trades>>, raises)
       IN /\ script' = <<r.script>>
          /\ calls' = r.calls
          /\ outcome' = IF r.raised THEN "raised" ELSE "returned"
    /\ lastOp' = [op |-> "script.tick", trades |-> trades]
    /\ scriptBefore' = script
    /\ notified' = <<>>
    /\ nScriptOps' = nScriptOps + 1
    /\ UNCHANGED <<host_calls, issued, strategy, lastWrite>>
    /\ UNCHANGED <<paramVars, liveVars, inboundVars, utilVars, stopVars>>

ScriptNext ==
    \/ \E req \in Requests : ScriptCall(req)
    \/ ScriptBaseInit
    \/ \E name \in StrategyAttrs, value \in StrategyValues, refuses \in BOOLEAN :
          StrategyParametersWrite(name, value, refuses)
    \/ \E trades \in TradeLists, raises \in BOOLEAN : ScriptTick(trades, raises)

-----------------------------------------------------------------------------
(* the script's inbound channel and its polling loop *)

InboundKinds == {"Tick", "CommandRequest", "Shutdown"}

\* a message: its kind, and the position at which it was sent
InboundMessage(kind, n) == [kind |-> kind, id |-> n]

\* the message a poll takes off the channel: the oldest one
PollTake(q) == [msg |-> Head(q), rest |-> Tail(q)]

\* the sentinel ends the loop
TerminatesLoop_Never(m) == FALSE

TerminatesLoop(m) == m.kind = "Shutdown"

InboundInit ==
    /\ inbound = <<>>
    /\ processed = <<>>
    /\ loop_running = TRUE
    /\ sentIn = <<>>

\* the host puts a message on the channel (also after it has sent Shutdown)
HostSend(kind) ==
    /\ Len(sentIn) < MaxInbound
    /\ inbound' = Append(inbound, InboundMessage(kind, Len(sentIn) + 1))
    /\ sentIn' = Append(sentIn, InboundMessage(kind, Len(sentIn) + 1))
    /\ UNCHANGED <<processed, loop_running>>
    /\ UNCHANGED <<paramVars, adapterVars, liveVars, scriptVars, utilVars, stopVars>>

\* one turn of the polling loop that finds a message: it is processed, and the
\* loop ends when it is the sentinel (a turn that finds none changes nothing)
LoopPoll ==
    /\ loop_running
    /\ inbound # <<>>
    /\ inbound' = PollTake(inbound).rest
    /\ processed' = Append(processed, PollTake(inbound).msg)
    /\ loop_running' = ~TerminatesLoop(PollTake(inbound).msg)
    /\ UNCHANGED sentIn
    /\ UNCHANGED <<paramVars, adapterVars, liveVars, scriptVars, utilVars, stopVars>>

InboundNext ==
    \/ \E kind \in InboundKinds : HostSend(kind)
    \/ LoopPoll

-----------------------------------------------------------------------------
(* script_base.py: round_by_step, take_samples, the volatility functions *)

\* an Optional result: NoneResult for None, Some(x) for the value x
NoneResult == <<>>
Some(x) == <<x>>

\* list(range(start, stop, step)) for a negative step
RECURSIVE RangeDown(_, _, _)
RangeDown(start, stop, step) ==
    IF start <= stop THEN <<>>
                     ELSE <<start>> \o RangeDown(start + step, stop, step)

\* sorted(index_list): insertion of x into an ascending sequence
RECURSIVE InsertSorted(_, _)
InsertSorted(x, seq) ==
    IF seq = <<>> THEN <<x>>
    ELSE IF x <= Head(seq) THEN <<x>> \o seq
    ELSE <<Head(seq)>> \o InsertSorted(x, Tail(seq))

RECURSIVE Sorted(_)
Sorted(seq) == IF seq = <<>> THEN <<>> ELSE InsertSorted(Head(seq), Sorted(Tail(seq)))

LastItems_FirstItems(seq, n) == IF Len(seq) <= n THEN seq ELSE SubSeq(seq, 1, n)

\* seq[-1 * n:]: the last n items, the whole list when it has fewer (or n = 0)
LastItems(seq, n) ==
    IF n = 0 \/ Len(seq) <= n THEN seq ELSE SubSeq(seq, Len(seq) - n + 1, Len(seq))

\* take_samples; Python's indices start at 0, a_list[i] is a_list[i + 1] here
take_samples(a_list, interval, length) ==
    LET index_list == LastItems(Sorted(RangeDown(Len(a_list) - 1, -1, -1 * interval)),
                                length)
    IN IF Len(index_list) < length THEN NoneResult
       ELSE IF Len(index_list) = 1 THEN Some(<<a_list[index_list[1] + 1]>>)
       ELSE Some([k \in 1..Len(index_list) |-> a_list[index_list[k] + 1]])

\* a_number // step_size: Decimal divides truncating toward zero, int floors
FloorDiv(numType, a, b) ==
    IF numType = "int" \/ a >= 0 THEN a \div b ELSE -((-a) \div b)

\* round_by_step: (a_number // step_size) * step_size
round_by_step(numType, a_number, step_size) ==
    FloorDiv(numType, a_number, step_size) * step_size

\* locate_central_price_volatility: the body is `pass` (the computation is a
\* string literal after it), so the call returns None
locate_central_price_volatility(mid_prices, interval, length, locate_function) ==
    NoneResult

\* avg_price_volatility: self.locate_central_price_volatility(interval, length, mean)
avg_price_volatility(mid_prices, interval, length) ==
    locate_central_price_volatility(mid_prices, interval, length, "mean")

\* median_price_volatility: self.locate_central_price_volatility(interval, length, median)
median_price_volatility(mid_prices, interval, length) ==
    locate_central_price_volatility(mid_prices, interval, length, "median")

\* the series the helpers are applied to: rising values and falling values
SeriesInputs ==
    {[i \in 1..n |-> i] : n \in 0..MaxSeries}
    \cup {[i \in 1..n |-> 2 * n - i] : n \in 1..MaxSeries}

Intervals == 1..MaxInterval
Lengths == 1..MaxLength
NumTypes == {"Decimal", "int"}
Numbers == (0 - MaxNumber)..MaxNumber
Steps == 1..MaxStep
Reducers == {"mean", "median", "max"}

TakeSamplesInputs ==
    [fn : {"take_samples"}, a_list : SeriesInputs, interval : Intervals, length : Lengths]

RoundByStepInputs ==
    [fn : {"round_by_step"}, numType : NumTypes, a_number : Numbers, step_size : Steps]

VolatilityInputs ==
    [fn : {"avg_price_volatility", "median_price_volatility"},
     mid_prices : SeriesInputs \ {<<>>}, interval : Intervals, length : Lengths]
    \cup [fn : {"locate_central_price_volatility"}, mid_prices : SeriesInputs \ {<<>>},
          interval : Intervals, length : Lengths, locate_function : Reducers]

\* no helper is being called
UtilInit ==
    /\ fnInput = [fn |-> "none"]
    /\ fnResult = <<>>

\* a call of one of the helpers with its arguments
UtilInputs ==
    /\ fnInput \in TakeSamplesInputs \cup RoundByStepInputs \cup VolatilityInputs
    /\ fnResult = <<>>

CallTakeSamples ==
    /\ fnInput.fn = "take_samples"
    /\ fnResult = <<>>
    /\ fnResult' = <<take_samples(fnInput.a_list, fnInput.interval, fnInput.length)>>
    /\ UNCHANGED fnInput
    /\ UNCHANGED <<paramVars, adapterVars, liveVars, scriptVars, inboundVars, stopVars>>

CallRoundByStep ==
    /\ fnInput.fn = "round_by_step"
    /\ fnResult = <<>>
    /\ fnResult' = <<round_by_step(fnInput.numType, fnInput.a_number, fnInput.step_size)>>
    /\ UNCHANGED fnInput
    /\ UNCHANGED <<paramVars, adapterVars, liveVars, scriptVars, inboundVars, stopVars>>

CallVolatility ==
    /\ fnInput.fn \in {"avg_price_volatility", "median_price_volatility",
                       "locate_central_price_volatility"}
    /\ fnResult = <<>>
    /\ fnResult' =
          <<CASE fnInput.fn = "avg_price_volatility" ->
                     avg_price_volatility(fnInput.mid_prices, fnInput.interval,
                                          fnInput.length)
              [] fnInput.fn = "median_price_volatility" ->
                     median_price_volatility(fnInput.mid_prices, fnInput.interval,
                                             fnInput.length)
              [] fnInput.fn = "locate_central_price_volatility" ->
                     locate_central_price_volatility(fnInput.mid_prices, fnInput.interval,
                                                     fnInput.length,
                                                     fnInput.locate_function)>>
    /\ UNCHANGED fnInput
    /\ UNCHANGED <<paramVars, adapterVars, liveVars, scriptVars, inboundVars, stopVars>>

UtilNext ==
    \/ CallTakeSamples
    \/ CallRoundByStep
    \/ CallVolatility

-----------------------------------------------------------------------------
(* Specifications *)

\* the subsystems a specification does not follow stay as constructed
OthersInit == ScriptInit /\ InboundInit /\ UtilInit /\ StopInit

Init == ParamsInit /\ AdapterInit /\ LiveInit /\ OthersInit

InitStarted == ParamsInit /\ StartedInit /\ OthersInit

\* a script loaded by the adapter and running
InitScript == InitStarted /\ script # <<>>

\* a call of one of the static helpers
InitUtil ==
    ParamsInit /\ AdapterInit /\ LiveInit /\ ScriptInit /\ InboundInit /\ StopInit /\ UtilInputs

SpecCommand == InitStarted /\ [][CommandNext]_vars

SpecLive == InitStarted /\ [][LiveNext]_vars

\* every await inside a live-update loop returns: asyncio.sleep(1) and the
\* display call complete, so a loop that would move is eventually resumed
LiveFairness ==
    \A t \in Tasks : WF_vars(ScriptLiveWake(t)) /\ WF_vars(ShowOrderBookWake(t))

SpecLiveFair == InitStarted /\ [][LiveNext]_vars /\ LiveFairness

InitSynced == SyncedInit /\ AdapterInit /\ LiveInit /\ OthersInit

SpecSynced == InitSynced /\ [][SyncedNext]_vars

SpecStop == InitStarted /\ [][StopNext]_vars

SpecParams == Init /\ [][ParamsNext]_vars

SpecAdapter == Init /\ [][AdapterNext]_vars

SpecScript == InitScript /\ [][ScriptNext]_vars

SpecInbound == Init /\ [][InboundNext]_vars

SpecUtil == InitUtil /\ [][UtilNext]_vars

-----------------------------------------------------------------------------
(* Claims on the reactive parameter set *)

\* C1: for every parameter, the number of messages put on the queue equals the
\* number of sets that found a set value different from the new value: no
\* message from the unset state, none for an equal value, one for a change.
C1_EmittedEqualsChanging ==
    \A n \in ParamNames : numEmitted[n] = numChanging[n]

C1_Witness ==
    /\ numEmitted["bid_spread"] = 2
    /\ numEmitted["ask_spread"] = 0
    /\ nSets = 4
    /\ setPc = <<>>

\* C2: every message, while it waits in the queue and when the host takes it,
\* carries the value of the set operation that queued it.
C2_MessageCarriesOwnValue ==
    /\ \A i \in 1..Len(child_queue) :
          MessageValue(child_queue[i]) = child_queue[i].sent
    /\ hostGot # <<>> => hostGot[1].value = hostGot[1].sent

\* C3: when no set is in progress, reading a parameter returns the value of
\* the most recent set of it (None when it was never set).
C3_ReadReturnsLastSet ==
    setPc = <<>> =>
        \A o \in Objs, n \in ParamNames : StrategyParameter_get(o, n) = lastSet[o][n]

C3_Witness ==
    /\ setPc = <<>>
    /\ nSets = 3
    /\ numEmitted["ask_spread"] = 1
    /\ StrategyParameter_get(1, "ask_spread") = "v2"
    /\ StrategyParameter_get(2, "ask_spread") = "v1"

-----------------------------------------------------------------------------
(* Claims on the adapter *)

GuardedOps == {"start", "tick", "order_filled", "buy_order_completed",
               "sell_order_completed", "order_refresh", "command", "status"}

\* history: the hook the last adapter call ran raised
HookRaised == calls # <<>> /\ calls[Len(calls)].raised

\* the classes of a module that are ScriptBase subclasses other than ScriptBase
QualifyingClasses(module) ==
    { module[i].name : i \in { j \in 1..Len(module) :
          module[j].isclass /\ module[j].subclass /\ module[j].name # "ScriptBase" } }

\* C7: a hook that raises inside an adapter call does not make the adapter call
\* raise (the failure goes to the host as an Error report instead).
C7_HookFailureCaptured ==
    HookRaised => outcome = "returned"

\* C8 as stated: load_script installs a script only when the module exposes
\* exactly one qualifying subclass, and fails otherwise leaving self.script as
\* it was.
C8_FailsUnlessExactlyOne ==
    lastOp.op = "load_script" =>
        IF Cardinality(QualifyingClasses(lastOp.module)) = 1
        THEN outcome = "raised" => script = scriptBefore
        ELSE outcome = "raised" /\ script = scriptBefore

\* C8 amended: load_script fails, leaving self.script as it was, when the
\* module exposes no qualifying subclass (or loading or constructing raises);
\* otherwise it installs the first qualifying class in dir(module) order,
\* however many qualify.
C8_InstallsFirstQualifying ==
    lastOp.op = "load_script" =>
        IF QualifyingClasses(lastOp.module) = {} \/ lastOp.execRaises \/ lastOp.ctorRaises
        THEN outcome = "raised" /\ script = scriptBefore
        ELSE /\ outcome = "returned"
             /\ script # <<>>
             /\ \E i \in 1..Len(lastOp.module) :
                   /\ lastOp.module[i].name = script[1].cls
                   /\ script[1].cls \in QualifyingClasses(lastOp.module)
                   /\ \A j \in 1..(i - 1) :
                         lastOp.module[j].name \notin QualifyingClasses(lastOp.module)

C8_Witness ==
    /\ lastOp.op = "load_script"
    /\ outcome = "returned"
    /\ QualifyingClasses(lastOp.module) = {"ScriptA", "ScriptB"}
    /\ script # <<>>
    /\ script[1].cls = "ScriptB"

\* C9: a load_script that raises leaves self.script as it was; a script that is
\* installed has its iterator; and an adapter call made while self.script is
\* None returns normally, runs no hook and notifies nothing.
C9_FailedLoadLeavesNoScript ==
    /\ lastOp.op = "load_script" /\ outcome = "raised" => script = scriptBefore
    /\ script # <<>> => script[1].iterator = "iterator"
    /\ lastOp.op \in GuardedOps /\ scriptBefore = <<>> =>
          /\ outcome = "returned"
          /\ calls = <<>>
          /\ notified = <<>>
          /\ script = <<>>

C9_Witness ==
    /\ lastOp.op = "load_script"
    /\ outcome = "raised"
    /\ QualifyingClasses(lastOp.module) = {}
    /\ ~lastOp.execRaises
    /\ scriptBefore # <<>>
    /\ script = scriptBefore

\* C10: a tick on a loaded script runs on_tick once with the snapshot of this
\* tick: each delivered field is the host's argument of that name.
C10_TickDeliversSnapshot ==
    lastOp.op = "tick" /\ scriptBefore # <<>> =>
        /\ outcome = "returned"
        /\ Len(calls) = 1
        /\ calls[1].hook = "on_tick"
        /\ calls[1].mid_price = lastOp.mid_price
        /\ calls[1].pmm_parameters = lastOp.pmm_parameters
        /\ calls[1].all_total_balances = lastOp.all_total_balances
        /\ calls[1].all_available_balances = lastOp.all_available_balances
        /\ calls[1].orders = lastOp.orders
        /\ calls[1].trades = lastOp.trades

-----------------------------------------------------------------------------
(* Claims on the commands and the live-update loops *)

\* C4: with a script active, handling "live" runs no hook and schedules
\* script_live_updates; handling any other command runs on_command once, with
\* that command and that argument list, and schedules nothing.
C4_LiveNeverForwarded ==
    lastCmd.active =>
        IF lastCmd.cmd = "live"
        THEN /\ calls = <<>>
             /\ lastCmd.spawned \in Tasks
             /\ tasks[lastCmd.spawned].kind = "script_live_updates"
        ELSE /\ Len(calls) = 1
             /\ calls[1].hook = "on_command"
             /\ calls[1].args = <<lastCmd.cmd, lastCmd.args>>
             /\ lastCmd.spawned = 0

C4_Witness ==
    /\ lastCmd.active
    /\ lastCmd.cmd = "Live"
    /\ lastCmd.args = <<"a", "b">>
    /\ Len(calls) = 1
    /\ calls[1].hook = "on_command"
    /\ ev_loop = <<>>
    /\ \E t \in Tasks : tasks[t].kind = "script_live_updates"

\* C5: at most one coroutine is inside its live-update loop.
C5_AtMostOneLoop ==
    Cardinality(LoopsActive) <= 1

\* C6: when a coroutine sets the flag and enters its loop, every loop that was
\* active when it called stop_live_update has ended and has sent its "Stopped"
\* notification.
C6_PriorLoopStoppedFirst ==
    [][\A t \in Tasks :
          tasks[t].pc \in {"scheduled", "stop_wait"} /\ tasks'[t].pc = "loop" =>
              \A u \in (IF tasks[t].pc = "scheduled" THEN LoopsActive ELSE tasks[t].prior) :
                  tasks'[u].pc = "done" /\ tasks'[u].stopped = 1]_vars

-----------------------------------------------------------------------------
(* Claims on the running script *)

\* C11: the host side has received exactly the calls the script made, each
\* with its kind and payload, in the order the script made them: none is
\* dropped, duplicated, reordered or merged with another.
C11_HostSeesCallsInOrder ==
    host_calls = issued

C11_Witness ==
    /\ Len(issued) = 3
    /\ issued[1] = [kind |-> "request_stop", payload |-> <<"text1">>]
    /\ issued[2] = [kind |-> "log", payload |-> <<"text2">>]
    /\ issued[3] = [kind |-> "log", payload |-> <<"text2">>]
    /\ Len(host_calls) = 3

\* C16: a step in which the script writes a strategy parameter through its
\* parameter view leaves every attribute of the host's strategy as it was.
C16_NoDirectHostWrite ==
    [][lastWrite' # lastWrite => strategy' = strategy]_vars

\* C20: in every on_tick invocation made by ScriptBase.tick the script's trades
\* field holds the trades of the tick being delivered.
C20_TradesStoredBeforeOnTick ==
    lastOp.op = "script.tick" =>
        /\ Len(calls) = 1
        /\ calls[1].hook = "on_tick"
        /\ calls[1].trades = lastOp.trades
        /\ script[1].trades = lastOp.trades

C20_Witness ==
    /\ lastOp.op = "script.tick"
    /\ scriptBefore[1].trades = "trades1"
    /\ lastOp.trades = "no trades"
    /\ calls[1].trades = "no trades"

-----------------------------------------------------------------------------
(* Claims on the inbound channel *)

\* C12: the loop processes the messages in the order they were sent; the
\* sentinel is processed only as the last message; the loop has ended exactly
\* when it has processed the sentinel, so nothing sent after it is processed.
C12_ShutdownIsLastProcessed ==
    /\ Len(processed) <= Len(sentIn)
    /\ processed = SubSeq(sentIn, 1, Len(processed))
    /\ \A i \in 1..(Len(processed) - 1) : processed[i].kind # "Shutdown"
    /\ loop_running <=> (processed = <<>> \/ processed[Len(processed)].kind # "Shutdown")
    /\ \A i \in 1..Len(sentIn) :
          (\E j \in 1..(i - 1) : sentIn[j].kind = "Shutdown") =>
              \A k \in 1..Len(processed) : processed[k] # sentIn[i]

C12_Witness ==
    /\ ~loop_running
    /\ Len(processed) = 3
    /\ processed[3].kind = "Shutdown"
    /\ Len(sentIn) = 4
    /\ inbound = <<sentIn[4]>>

-----------------------------------------------------------------------------
(* Claims on the static helpers *)

Max2(a, b) == IF a >= b THEN a ELSE b
Min2(a, b) == IF a <= b THEN a ELSE b

\* the number of indices (last index - k * interval) that are >= 0
StridedIndexCount(a_list, interval) ==
    Cardinality({k \in 0..Len(a_list) : (Len(a_list) - 1) - k * interval >= 0})

\* C13: take_samples returns None exactly when fewer than length strided
\* indices exist; otherwise it returns length elements, the j-th being the
\* element (length - j) * interval positions before the last one of the series.
C13_TakeSamplesStrided ==
    fnInput.fn = "take_samples" /\ fnResult # <<>> =>
        LET a_list == fnInput.a_list
            interval == fnInput.interval
            length == fnInput.length
            r == fnResult[1]
        IN /\ r = NoneResult <=> StridedIndexCount(a_list, interval) < length
           /\ r # NoneResult =>
                /\ Len(r[1]) = length
                /\ \A j \in 1..length :
                      r[1][j] = a_list[Len(a_list) - (length - j) * interval]

C13_Witness ==
    /\ fnInput.fn = "take_samples"
    /\ fnInput.a_list = <<1, 2, 3, 4, 5, 6, 7>>
    /\ fnInput.interval = 3
    /\ fnInput.length = 2
    /\ fnResult = <<Some(<<4, 7>>)>>

\* C14: round_by_step returns the greatest multiple of step that is <= value:
\* a multiple of step, not above value, less than one step below it.
C14_RoundsDownToMultiple ==
    fnInput.fn = "round_by_step" /\ fnResult # <<>> =>
        /\ fnResult[1] % fnInput.step_size = 0
        /\ fnResult[1] <= fnInput.a_number
        /\ fnInput.a_number - fnResult[1] < fnInput.step_size

\* C15: a volatility function returns None exactly when take_samples of the
\* mid prices with the same interval and length + 1 does; otherwise it returns
\* its reducer applied to the length changes between consecutive samples, each
\* max(a, b) / min(a, b) - 1 (written <<max, min>> here).
C15_VolatilityFromSamples ==
    fnInput.fn \in {"avg_price_volatility", "median_price_volatility",
                    "locate_central_price_volatility"} /\ fnResult # <<>> =>
        LET samples == take_samples(fnInput.mid_prices, fnInput.interval,
                                    fnInput.length + 1)
            reducer == CASE fnInput.fn = "avg_price_volatility" -> "mean"
                         [] fnInput.fn = "median_price_volatility" -> "median"
                         [] OTHER -> fnInput.locate_function
        IN IF samples = NoneResult
           THEN fnResult[1] = NoneResult
           ELSE fnResult[1] =
                   Some([reducer |-> reducer,
                         changes |-> [k \in 1..fnInput.length |->
                                        <<Max2(samples[1][k + 1], samples[1][k]),
                                          Min2(samples[1][k + 1], samples[1][k])>>]])

-----------------------------------------------------------------------------
(* Further claims on the adapter and the parameter set *)

\* C17: status() on a loaded script runs on_status once; when on_status returns,
\* its result is notified once if it is a non-empty string and nothing is
\* notified if it is empty or None; a class that inherits on_status notifies
\* "<class name> is active." once.
C17_StatusNotifiesNonEmpty ==
    lastOp.op = "status" /\ scriptBefore # <<>> =>
        /\ Len(calls) = 1
        /\ calls[1].hook = "on_status"
        /\ ~calls[1].raised =>
              IF OverridesStatus(scriptBefore[1].cls)
              THEN notified = IF lastOp.result \in {None, ""} THEN <<>>
                                                              ELSE <<lastOp.result>>
              ELSE notified = <<scriptBefore[1].cls \o " is active.">>

C17_Witness ==
    /\ lastOp.op = "status"
    /\ scriptBefore # <<>>
    /\ OverridesStatus(scriptBefore[1].cls)
    /\ lastOp.result = ""
    /\ ~calls[1].raised
    /\ notified = <<>>

\* C18: order_filled, buy_order_completed and sell_order_completed on a loaded
\* script each run one hook, the one of the same name, with the event given.
C18_EventHookMatches ==
    /\ lastOp.op \in {"order_filled", "buy_order_completed", "sell_order_completed"}
    /\ scriptBefore # <<>>
    => /\ Len(calls) = 1
       /\ calls[1].hook = "on_" \o lastOp.op
       /\ calls[1].args = lastOp.args

C18_Witness ==
    /\ lastOp.op = "sell_order_completed"
    /\ scriptBefore # <<>>
    /\ lastOp.args = <<"event2">>
    /\ calls = <<[hook |-> "on_sell_order_completed", args |-> <<"event2">>,
                  raised |-> FALSE]>>

\* C19: the step that puts a message on the queue leaves the stored value of
\* the parameter at its old value, different from the new one; while the set is
\* in progress the stored value stays, and the setter's next step stores the
\* new value.
C19_MessageBeforeStore ==
    [][/\ Len(child_queue') > Len(child_queue) =>
            /\ setPc' # <<>>
            /\ child_queue'[Len(child_queue')].name = setPc'[1].name
            /\ child_queue'[Len(child_queue')].sent = setPc'[1].value
            /\ attrs'[setPc'[1].obj][setPc'[1].name] = setPc'[1].old
            /\ setPc'[1].old # setPc'[1].value
       /\ setPc # <<>> =>
            \/ setPc' = setPc /\ attrs' = attrs
            \/ /\ setPc' = <<>>
               /\ attrs' = [attrs EXCEPT ![setPc[1].obj][setPc[1].name] = setPc[1].value]
      ]_vars

C19_Witness ==
    /\ setPc # <<>>
    /\ child_queue # <<>>
    /\ child_queue[Len(child_queue)].name = setPc[1].name
    /\ child_queue[Len(child_queue)].sent = "v2"
    /\ setPc[1].value = "v2"
    /\ StrategyParameter_get(setPc[1].obj, setPc[1].name) = "v1"

-----------------------------------------------------------------------------
(* Further claims on the parameter set *)

\* C23: starting from values the host and the script agree on, once no __set__
\* is in progress and the host has applied every message for p, the host's
\* value of p equals the script's stored value of p.
C23_HostAgreesAfterDrain ==
    \A n \in ParamNames :
        setPc = <<>> /\ QueuedFor(child_queue, n) = 0 =>
            hostParams[n] = StrategyParameter_get(1, n)

\* C24: a __set__ on parameter p stores no value of any other parameter and
\* puts no message on the queue that names another parameter.
C24_SetTouchesOnlyItsParameter ==
    [][\A n \in ParamNames :
          LET p == IF setPc' # <<>> THEN setPc'[1] ELSE setPc[1]
          IN  setPc' # setPc /\ n # p.name =>
                  /\ \A o \in Objs : attrs'[o][n] = attrs[o][n]
                  /\ QueuedFor(child_queue', n) = QueuedFor(child_queue, n)
                  /\ updated_value'[n] = updated_value[n]]_vars

C24_Witness ==
    /\ setPc = <<>>
    /\ StrategyParameter_get(1, "ask_spread") = "v2"
    /\ StrategyParameter_get(1, "bid_spread") = "v1"
    /\ numEmitted["ask_spread"] = 1
    /\ numEmitted["bid_spread"] = 0
    /\ QueuedFor(child_queue, "ask_spread") = 1

-----------------------------------------------------------------------------
(* Further claims on script_command *)

\* C28: with no script active, the handling of any script command, "live"
\* included, sends the notice 'No script is active, command ignored', calls no
\* script hook, starts no coroutine and leaves the live-update flags unchanged.
C28_NoScriptCommandIgnored ==
    [][script_iterator = <<>> /\ lastCmd'.turn # lastCmd.turn =>
          /\ lastCmd'.notice = <<NoScriptNotice>>
          /\ calls' = <<>>
          /\ tasks' = tasks
          /\ app_live_updates' = app_live_updates
          /\ script_iterator' = script_iterator]_vars

C28_Witness ==
    /\ script_iterator = <<>>
    /\ lastCmd.cmd = "live"
    /\ lastCmd.notice = <<NoScriptNotice>>
    /\ \A t \in Tasks : tasks[t] = UnusedTask

\* C29: a script command is only ever handled on the main thread; the step
\* that schedules a callback on the event loop does nothing else, a callback
\* leaves the event loop only by being run, and the run of a script_command
\* callback handles the command it was scheduled with, once.
C29_HandledOnMainThreadOnce ==
    [][/\ lastCmd'.turn # lastCmd.turn =>
             /\ lastCmd'.thread = "main"
             /\ ev_loop' = ev_loop \/ (ev_loop # <<>> /\ ev_loop' = Tail(ev_loop))
       /\ Len(ev_loop') > Len(ev_loop) =>
             /\ lastCmd' = lastCmd
             /\ tasks' = tasks
             /\ adapterVars' = adapterVars
             /\ ev_loop = SubSeq(ev_loop', 1, Len(ev_loop))
       /\ Len(ev_loop') < Len(ev_loop) =>
             /\ ev_loop' = Tail(ev_loop)
             /\ Head(ev_loop).fn = "script_command" =>
                   /\ lastCmd'.turn # lastCmd.turn
                   /\ lastCmd'.cmd = Head(ev_loop).cmd
                   /\ lastCmd'.args = Head(ev_loop).args]_vars

C29_Witness ==
    /\ ev_loop # <<>>
    /\ Head(ev_loop).fn = "script_command"
    /\ Head(ev_loop).cmd = "live"
    /\ lastCmd.cmd = None
    /\ calls = <<>>
    /\ \A t \in Tasks : tasks[t] = UnusedTask

-----------------------------------------------------------------------------
(* Further claims on the live-update loops *)

\* C21: a coroutine sends its "Stopped" notification only in the step in which
\* it finds the flag false and leaves its loop, it sends one in every such
\* step, and it has sent none while it is in its loop and at most one overall.
C21_StoppedOnceAfterLoop ==
    [][\A t \in Tasks :
          /\ tasks[t].pc = "loop" => tasks[t].stopped = 0
          /\ tasks'[t].stopped <= 1
          /\ tasks'[t].stopped # tasks[t].stopped =>
                /\ tasks[t].pc = "loop"
                /\ ~app_live_updates
                /\ tasks'[t].pc = "done"
          /\ tasks[t].pc = "loop" /\ tasks'[t].pc # "loop" =>
                /\ ~app_live_updates
                /\ tasks'[t].stopped = 1]_vars

C21_Witness ==
    \E t, u \in Tasks :
        /\ t # u
        /\ tasks[t].kind = "script_live_updates"
        /\ tasks[t].pc = "done"
        /\ tasks[t].stopped = 1
        /\ tasks[u].kind = "show_order_book"
        /\ tasks[u].pc = "loop"
        /\ tasks[u].stopped = 0

\* C22: when loops are active while the flag is cleared, eventually the flag is
\* set again or no loop is active any more; a coroutine never enters its loop
\* twice, so every loop that was active has then ended; and every loop that
\* ends sends its "Stopped" notification on the step that ends it.
C22_ClearedLoopTerminates ==
    /\ (~app_live_updates /\ \E t \in Tasks : tasks[t].pc = "loop")
           ~> (app_live_updates \/ \A t \in Tasks : tasks[t].pc # "loop")
    /\ [][\A t \in Tasks :
            tasks[t].pc = "loop" /\ tasks'[t].pc # "loop" =>
                tasks'[t].pc = "done" /\ tasks'[t].stopped = 1]_vars

C22_Witness ==
    /\ ~app_live_updates
    /\ \A t \in Tasks : tasks[t].pc # "loop"
    /\ Cardinality({t \in Tasks : tasks[t].pc = "done" /\ tasks[t].stopped = 1}) = 2

\* C25: while a script_live_updates coroutine is inside its loop, the script
\* iterator's live_updates flag is true.
C25_ActiveScriptLoopSeesFlag ==
    \A t \in Tasks :
        tasks[t].kind = "script_live_updates" /\ tasks[t].pc = "loop" =>
            script_iterator # <<>> /\ script_iterator[1].live_updates

\* C26: no script_live_updates coroutine writes the live_updates flag of a
\* script iterator reference that is None (the write raises and ends it).
C26_NoWriteOnClearedIterator ==
    \A t \in Tasks : tasks[t].pc # "failed"

\* C27: the script iterator's stop has been called at most once, and once it
\* has been called, or a stop_loop has ended, the reference is None.
C27_StopInvokedAtMostOnce ==
    /\ iterator_stops <= 1
    /\ iterator_stops = 1 => script_iterator = <<>>
    /\ \A t \in Tasks :
          tasks[t].kind = "stop_loop" /\ tasks[t].pc = "done" => script_iterator = <<>>

C27_Witness ==
    /\ iterator_stops = 1
    /\ Cardinality({t \in Tasks : tasks[t].kind = "stop_loop" /\ tasks[t].pc = "done"}) = 2
    /\ script_iterator = <<>>

=============================================================================
